---- MODULE Spec2Model ----
(***************************************************************************)
(* State-machine model of src/scrape.py: main() drives one browser session *)
(* through search_sei (navigate, wait, fill the form, submit, harvest the  *)
(* results table) and download_sei_pdfs (per record: run the trigger       *)
(* script, switch to the second window handle, HTTP GET its URL, write the *)
(* file, close the window), and quits the browser in a finally block.      *)
(*                                                                         *)
(* Text is a sequence of one-character strings.  A link (href) is a        *)
(* sequence of tokens in which the scheme "javascript:" is one token.      *)
(* A window handle is a number: Primary for the window the session starts  *)
(* with, and k for the window opened by the trigger script of record k.    *)
(* The document shown in window k is document k, and the HTTP server       *)
(* answers a GET of window k's URL with document k as body.                *)
(*                                                                         *)
(* A call fails where the page, the network or the file system can make    *)
(* it fail: navigation, the bounded wait, element lookup and interaction,  *)
(* script execution, window switching, the HTTP GET, makedirs and the file *)
(* write.  Reads of session state (find_elements, page_source,             *)
(* window_handles, current_url) and close/quit/save_screenshot return.     *)
(***************************************************************************)
EXTENDS Integers, Sequences, FiniteSets, TLC

\* Largest number of data rows (after the header) of a results table.
MaxRows == 2

\* Handle of the window the session starts with (window_handles[0]).
Primary == 0

(***************************************************************************)
(* Text helpers                                                            *)
(***************************************************************************)
Whitespace == {" "}

RECURSIVE LStrip(_)
LStrip(s) ==
    IF s # <<>> /\ Head(s) \in Whitespace THEN LStrip(Tail(s)) ELSE s

RECURSIVE RStrip(_)
RStrip(s) ==
    IF s # <<>> /\ s[Len(s)] \in Whitespace
    THEN RStrip(SubSeq(s, 1, Len(s) - 1))
    ELSE s

\* str.strip()
Strip(s) == RStrip(LStrip(s))

\* str.replace(' ', '_')
ReplaceSpaces(s) == [k \in 1..Len(s) |-> IF s[k] = " " THEN "_" ELSE s[k]]

\* link_script.startswith("javascript:")
StartsWithJavascript(link) == link # <<>> /\ Head(link) = "javascript:"

\* link_script.replace("javascript:", ""): every occurrence is removed
StripJavascript(link) ==
    LET Keep(t) == t # "javascript:" IN SelectSeq(link, Keep)

T_John_Smith == <<"J","o","h","n"," ","S","m","i","t","h">>
T_John_Smith_Padded == <<" ">> \o T_John_Smith \o <<" ">>
T_John_Smith_Underscored == <<"J","o","h","n","_","S","m","i","t","h">>
T_Governor == <<"G","o","v","e","r","n","o","r">>
T_View == <<"V","i","e","w">>

OutputDir == <<"s","e","i","_","p","d","f","s">>

\* f"{name.replace(' ', '_')}_{position.replace(' ', '_')}.pdf"
Filename(name, position) ==
    ReplaceSpaces(name) \o <<"_">> \o ReplaceSpaces(position)
        \o <<".","p","d","f">>

\* os.path.join(output_dir, filename), for a filename that is not absolute
PathJoin(dir, filename) == dir \o <<"/">> \o filename

(***************************************************************************)
(* Pages                                                                   *)
(***************************************************************************)
FormElements == {"FirstName", "LastName", "SearchSEI"}

\* The search form as the browser renders it: whether an input[type='text']
\* exists, and for each form element whether the element with the primary
\* id exists and whether the fallback CSS selector matches an element.
FormPages ==
    [kind : {"form"}, marker : BOOLEAN,
     byId : [FormElements -> BOOLEAN], byCss : [FormElements -> BOOLEAN]]

NoAnchor == <<>>
Anchor(link) == [tag |-> "a", hasHref |-> TRUE, href |-> link]
AnchorNoHref == [tag |-> "a", hasHref |-> FALSE, href |-> <<>>]
Cell(text, anchors) == [text |-> text, anchors |-> anchors]

JsLink == <<"javascript:", "viewSEI('123')">>
PlainLink == <<"ViewSEI.aspx?id=123">>

\* Rows of a results table, as sequences of td cells.
RowTh == <<>>
RowOneCell == << Cell(T_View, <<Anchor(JsLink)>>) >>
RowTwoCells == << Cell(T_View, <<Anchor(JsLink)>>), Cell(T_John_Smith_Padded, NoAnchor) >>
RowFull ==
    << Cell(T_View, <<Anchor(JsLink)>>), Cell(T_John_Smith_Padded, NoAnchor),
       Cell(T_Governor, NoAnchor) >>
RowUnderscored ==
    << Cell(T_View, <<Anchor(JsLink)>>), Cell(T_John_Smith_Underscored, NoAnchor),
       Cell(T_Governor, NoAnchor) >>
RowNoAnchor ==
    << Cell(T_View, NoAnchor), Cell(T_John_Smith, NoAnchor), Cell(T_Governor, NoAnchor) >>
RowAnchorNoHref ==
    << Cell(T_View, <<AnchorNoHref, Anchor(JsLink)>>), Cell(T_John_Smith, NoAnchor),
       Cell(T_Governor, NoAnchor) >>
RowPlainLink ==
    << Cell(T_View, <<Anchor(PlainLink)>>), Cell(T_John_Smith, NoAnchor),
       Cell(T_Governor, NoAnchor) >>

DataRows ==
    { RowTh, RowOneCell, RowTwoCells, RowFull, RowUnderscored, RowNoAnchor,
      RowAnchorNoHref, RowPlainLink }

\* A header row is made of th cells (no td), or of td cells with a link.
HeaderRows == { RowTh, RowFull }

Range(f) == { f[k] : k \in DOMAIN f }

SeqsUpTo(S, n) == UNION { [1..k -> S] : k \in 0..n }

\* The tr rows of table.GridView: none, or a header and up to MaxRows rows.
Tables == { <<>> } \cup { <<h>> \o d : h \in HeaderRows, d \in SeqsUpTo(DataRows, MaxRows) }

\* The page after the submit: without a results table, or with one.
ResultsPages ==
    { [kind |-> "results", hasTable |-> FALSE, rows |-> <<>>] }
        \cup { [kind |-> "results", hasTable |-> TRUE, rows |-> t] : t \in Tables }

BlankPage == [kind |-> "blank"]

(***************************************************************************)
(* search_sei: harvesting the results table                                *)
(***************************************************************************)
\* cells[0].find('a'): the first anchor of the cell, or None
None == [tag |-> "None", hasHref |-> FALSE, href |-> <<>>]
FindAnchor(cell) == IF cell.anchors = <<>> THEN None ELSE Head(cell.anchors)

\* view_link and 'href' in view_link.attrs
HasLink(view_link) == view_link # None /\ view_link.hasHref

\* len(cells) >= 2
EnoughCells(cells) == Len(cells) >= 2

\* The body of the loop over rows: the record a row yields, if any.
HarvestRow(cells, acc) ==
    IF EnoughCells(cells)
    THEN LET name == Strip(cells[2].text)
             position == IF Len(cells) > 2 THEN Strip(cells[3].text) ELSE <<>>
             view_link == FindAnchor(cells[1])
         IN  IF HasLink(view_link)
             THEN Append(acc, [name |-> name, position |-> position,
                               link |-> view_link.href])
             ELSE acc
    ELSE acc

RECURSIVE HarvestLoop(_, _)
HarvestLoop(rows, acc) ==
    IF rows = <<>> THEN acc
    ELSE HarvestLoop(Tail(rows), HarvestRow(Head(rows), acc))

\* Variant of SkipHeader: the loop runs over rows instead of rows[1:].
SkipHeaderNot(rows) == rows

\* rows[1:]
SkipHeader(rows) == IF rows = <<>> THEN <<>> ELSE Tail(rows)

Harvest(rows) == HarvestLoop(SkipHeader(rows), <<>>)

(***************************************************************************)
(* State                                                                   *)
(***************************************************************************)
VARIABLES
    pc,          \* the statement main() is at
    exc,         \* the exception in flight, or "none"
    page,        \* the document of the primary window
    typed,       \* per name field: the locator it was found by and the keys sent
    clicked,     \* the locator of the submit control clicked, or "none"
    screenshots, \* the screenshot files saved
    results,     \* the list search_sei builds and returns
    i,           \* position in results of the record being processed
    attempted,   \* positions of the records the loop has started on, in order
    handles,     \* driver.window_handles, in order of opening
    focus,       \* the window the session is switched to
    windows,     \* local: window_handles as read at line 134
    pdf_url,     \* local: the window whose URL was read at line 139
    response,    \* local: the response of requests.get
    dirExists,   \* whether output_dir exists
    files,       \* the files under output_dir: path -> content
    log          \* the calls made on the driver, HTTP client and file system

vars ==
    << pc, exc, page, typed, clicked, screenshots, results, i, attempted,
       handles, focus, windows, pdf_url, response, dirExists, files, log >>

\* main(): first_name = "John", last_name = "Smith"
FirstNameArg == <<"J","o","h","n">>
LastNameArg == <<"S","m","i","t","h">>

Ev(op, rec, n, res) == [op |-> op, rec |-> rec, n |-> n, res |-> res]
Logged(op, rec, n, res) == log' = Append(log, Ev(op, rec, n, res))

NoResponse == [status_code |-> 0, content |-> 0]

\* The state when setup_driver() has returned: one window, nothing done yet.
Init ==
    /\ pc = "get"
    /\ exc = "none"
    /\ page = BlankPage
    /\ typed = [e \in {"FirstName", "LastName"} |-> [by |-> "none", keys |-> <<>>]]
    /\ clicked = "none"
    /\ screenshots = {}
    /\ results = <<>>
    /\ i = 0
    /\ attempted = <<>>
    /\ handles = <<Primary>>
    /\ focus = Primary
    /\ windows = <<>>
    /\ pdf_url = Primary
    /\ response = NoResponse
    /\ dirExists \in BOOLEAN
    /\ files = [p \in {} |-> 0]
    /\ log = <<>>

(***************************************************************************)
(* search_sei                                                              *)
(***************************************************************************)
SearchLocals == << results, i, attempted, handles, focus, windows, pdf_url,
                   response, dirExists, files >>

\* driver.get(url), line 27, outside every try block of search_sei: a
\* navigation error propagates to main's finally.
Navigate ==
    /\ pc = "get"
    /\ \/ /\ \E p \in FormPages : page' = p
          /\ pc' = "wait"
          /\ Logged("get", 0, 0, "ok")
          /\ UNCHANGED exc
       \/ /\ exc' = "WebDriverException"
          /\ pc' = "finally"
          /\ Logged("get", 0, 0, "raised")
          /\ UNCHANGED page
    /\ UNCHANGED << typed, clicked, screenshots >>
    /\ UNCHANGED SearchLocals

\* WebDriverWait(driver, 20).until(presence_of_element_located(input[type='text']))
WaitForPage ==
    /\ pc = "wait"
    /\ IF page.marker
       THEN /\ pc' = "form_first"
            /\ Logged("wait", 0, 0, "ok")
            /\ UNCHANGED exc
       ELSE /\ exc' = "TimeoutException"
            /\ pc' = "except_wait"
            /\ Logged("wait", 0, 0, "raised")
    /\ UNCHANGED << page, typed, clicked, screenshots >>
    /\ UNCHANGED SearchLocals

\* Variant of ExceptWait: the handler re-raises without the screenshot.
ExceptWaitNoScreenshot ==
    /\ pc = "except_wait"
    /\ pc' = "finally"
    /\ UNCHANGED << exc, page, typed, clicked, screenshots, log >>
    /\ UNCHANGED SearchLocals

\* except: save_screenshot("debug_screenshot.png"); raise
ExceptWait ==
    /\ pc = "except_wait"
    /\ screenshots' = screenshots \cup {"debug_screenshot.png"}
    /\ Logged("save_screenshot", 0, 0, "ok")
    /\ pc' = "finally"
    /\ UNCHANGED << exc, page, typed, clicked >>
    /\ UNCHANGED SearchLocals

\* driver.find_element(by, value): the element, or NoSuchElementException.
\* It never returns None or another falsy value.
FindElement(p, e, by) ==
    IF (IF by = "id" THEN p.byId[e] ELSE p.byCss[e])
    THEN [raised |-> FALSE, by |-> by]
    ELSE [raised |-> TRUE, by |-> by]

\* bool(element) for a WebElement, which defines neither __bool__ nor __len__
Truthy(el) == TRUE

\* field = find_element(By.ID, ...); if not field: field = find_element(By.CSS_SELECTOR, ...)
Locate(p, e) ==
    LET el == FindElement(p, e, "id")
    IN  IF el.raised THEN el
        ELSE IF ~Truthy(el) THEN FindElement(p, e, "css")
        ELSE el

\* if name: locate the field and send_keys(name) (lines 48-54 and 57-63)
FillField(e, keys, next) ==
    IF keys # <<>>
    THEN LET el == Locate(page, e)
         IN  IF el.raised
             THEN /\ exc' = "NoSuchElementException"
                  /\ pc' = "except_form"
                  /\ UNCHANGED << typed, log >>
             ELSE \/ /\ typed' = [typed EXCEPT ![e] = [by |-> el.by, keys |-> keys]]
                     /\ Logged("send_keys", 0, 0, "ok")
                     /\ pc' = next
                     /\ UNCHANGED exc
                  \/ /\ exc' = "ElementNotInteractableException"
                     /\ Logged("send_keys", 0, 0, "raised")
                     /\ pc' = "except_form"
                     /\ UNCHANGED typed
    ELSE /\ pc' = next
         /\ UNCHANGED << exc, typed, log >>

FillFirstName ==
    /\ pc = "form_first"
    /\ FillField("FirstName", FirstNameArg, "form_last")
    /\ UNCHANGED << page, clicked, screenshots >>
    /\ UNCHANGED SearchLocals

FillLastName ==
    /\ pc = "form_last"
    /\ FillField("LastName", LastNameArg, "form_submit")
    /\ UNCHANGED << page, clicked, screenshots >>
    /\ UNCHANGED SearchLocals

\* Lines 66-71 and 80: locate the submit control and click it; after the
\* fixed sleep the primary window shows whatever the server answered.
Submit ==
    /\ pc = "form_submit"
    /\ LET el == Locate(page, "SearchSEI")
       IN  IF el.raised
           THEN /\ exc' = "NoSuchElementException"
                /\ pc' = "except_form"
                /\ UNCHANGED << page, clicked, log >>
           ELSE \/ /\ clicked' = el.by
                   /\ \E r \in ResultsPages : page' = r
                   /\ Logged("click", 0, 0, "ok")
                   /\ pc' = "check_table"
                   /\ UNCHANGED exc
                \/ /\ exc' = "ElementNotInteractableException"
                   /\ Logged("click", 0, 0, "raised")
                   /\ pc' = "except_form"
                   /\ UNCHANGED << page, clicked >>
    /\ UNCHANGED << typed, screenshots >>
    /\ UNCHANGED SearchLocals

\* except: save_screenshot("form_error_screenshot.png"); raise
ExceptForm ==
    /\ pc = "except_form"
    /\ screenshots' = screenshots \cup {"form_error_screenshot.png"}
    /\ Logged("save_screenshot", 0, 0, "ok")
    /\ pc' = "finally"
    /\ UNCHANGED << exc, page, typed, clicked >>
    /\ UNCHANGED SearchLocals

\* results_table = find_elements("table.GridView"); if not results_table: return []
CheckTable ==
    /\ pc = "check_table"
    /\ IF ~page.hasTable
       THEN /\ results' = <<>>
            /\ pc' = "main_if"
       ELSE /\ pc' = "parse"
            /\ UNCHANGED results
    /\ UNCHANGED << exc, page, typed, clicked, screenshots, i, attempted, handles,
                    focus, windows, pdf_url, response, dirExists, files, log >>

\* Lines 90-113: parse page_source and return the records.
ParseResults ==
    /\ pc = "parse"
    /\ results' = Harvest(page.rows)
    /\ pc' = "main_if"
    /\ UNCHANGED << exc, page, typed, clicked, screenshots, i, attempted, handles,
                    focus, windows, pdf_url, response, dirExists, files, log >>

(***************************************************************************)
(* main                                                                    *)
(***************************************************************************)
\* Variant of MainIf: download_sei_pdfs is called whatever results holds.
MainIfAlways ==
    /\ pc = "main_if"
    /\ pc' = "mkdir"
    /\ UNCHANGED << exc, page, typed, clicked, screenshots, results, i, attempted,
                    handles, focus, windows, pdf_url, response, dirExists, files, log >>

\* if results: download_sei_pdfs(driver, results)  else: print(...)
MainIf ==
    /\ pc = "main_if"
    /\ pc' = IF results # <<>> THEN "mkdir" ELSE "finally"
    /\ UNCHANGED << exc, page, typed, clicked, screenshots, results, i, attempted,
                    handles, focus, windows, pdf_url, response, dirExists, files, log >>

\* Variant of Finally: quit at the end of the try block, not in a finally.
FinallyOnlyOnSuccess ==
    /\ pc = "finally"
    /\ pc' = "done"
    /\ IF exc = "none"
       THEN /\ handles' = <<>>
            /\ Logged("quit", 0, 0, "ok")
       ELSE UNCHANGED << handles, log >>
    /\ UNCHANGED << exc, page, typed, clicked, screenshots, results, i, attempted,
                    focus, windows, pdf_url, response, dirExists, files >>

\* finally: driver.quit(), whatever the try block did
Finally ==
    /\ pc = "finally"
    /\ pc' = "done"
    /\ handles' = <<>>
    /\ Logged("quit", 0, 0, "ok")
    /\ UNCHANGED << exc, page, typed, clicked, screenshots, results, i, attempted,
                    focus, windows, pdf_url, response, dirExists, files >>

(***************************************************************************)
(* download_sei_pdfs                                                       *)
(***************************************************************************)
SearchState == << page, typed, clicked, screenshots, results >>

\* The statuses the server answers with.
Statuses == {200, 204, 404}

\* The bytes of the document shown in window w.
Body(w) == <<w>>

Without(ws, w) == LET Keep(x) == x # w IN SelectSeq(ws, Keep)

\* if not os.path.exists(output_dir): os.makedirs(output_dir)
\* makedirs is outside the loop's try block: its failure propagates.
MakeDir ==
    /\ pc = "mkdir"
    /\ \/ /\ dirExists
          /\ pc' = "loop"
          /\ i' = 1
          /\ UNCHANGED << exc, dirExists, log >>
       \/ /\ ~dirExists
          /\ dirExists' = TRUE
          /\ Logged("makedirs", 0, 0, "ok")
          /\ pc' = "loop"
          /\ i' = 1
          /\ UNCHANGED exc
       \/ /\ ~dirExists
          /\ exc' = "OSError"
          /\ Logged("makedirs", 0, 0, "raised")
          /\ pc' = "finally"
          /\ UNCHANGED << dirExists, i >>
    /\ UNCHANGED SearchState
    /\ UNCHANGED << attempted, handles, focus, windows, pdf_url, response, files >>

\* for result in results: ... if link_script.startswith("javascript:"):
LoopHead ==
    /\ pc = "loop"
    /\ IF i > Len(results)
       THEN /\ pc' = "finally"
            /\ UNCHANGED << i, attempted >>
       ELSE /\ attempted' = Append(attempted, i)
            /\ IF StartsWithJavascript(results[i].link)
               THEN pc' = "exec" /\ UNCHANGED i
               ELSE pc' = "loop" /\ i' = i + 1
    /\ UNCHANGED SearchState
    /\ UNCHANGED << exc, handles, focus, windows, pdf_url, response, dirExists,
                    files, log >>

\* driver.execute_script(link_script.replace("javascript:", "")); time.sleep(3)
\* The script runs in the focused window.  It raises, or opens the window
\* of this record's document, or opens nothing.
ExecuteScript ==
    /\ pc = "exec"
    /\ \/ /\ exc' = IF focus \in Range(handles) THEN "JavascriptException"
                    ELSE "NoSuchWindowException"
          /\ Logged("execute_script", i, Len(StripJavascript(results[i].link)), "raised")
          /\ pc' = "except_record"
          /\ UNCHANGED handles
       \/ /\ focus \in Range(handles)
          /\ handles' = Append(handles, i)
          /\ Logged("execute_script", i, Len(StripJavascript(results[i].link)), "opened")
          /\ pc' = "handles"
          /\ UNCHANGED exc
       \/ /\ focus \in Range(handles)
          /\ Logged("execute_script", i, Len(StripJavascript(results[i].link)), "nothing")
          /\ pc' = "handles"
          /\ UNCHANGED << exc, handles >>
    /\ UNCHANGED SearchState
    /\ UNCHANGED << i, attempted, focus, windows, pdf_url, response, dirExists, files >>

\* windows = driver.window_handles; if len(windows) > 1:
ReadHandles ==
    /\ pc = "handles"
    /\ windows' = handles
    /\ Logged("window_handles", i, Len(handles), "ok")
    /\ IF Len(handles) > 1
       THEN pc' = "switch" /\ UNCHANGED i
       ELSE pc' = "loop" /\ i' = i + 1
    /\ UNCHANGED SearchState
    /\ UNCHANGED << exc, attempted, handles, focus, pdf_url, response, dirExists, files >>

\* Variant of SwitchTarget: the first handle instead of the second.
SwitchTargetFirst(ws) == ws[1]

\* windows[1], the second handle
SwitchTarget(ws) == ws[2]

\* driver.switch_to.window(windows[1]); pdf_url = driver.current_url
\* The switch raises when the window has gone in the meantime.
SwitchWindow ==
    /\ pc = "switch"
    /\ LET target == SwitchTarget(windows)
       IN  \/ /\ focus' = target
              /\ pdf_url' = target
              /\ Logged("switch_to", i, target, "ok")
              /\ pc' = "http"
              /\ UNCHANGED << exc, handles >>
           \/ /\ handles' = Without(handles, target)
              /\ exc' = "NoSuchWindowException"
              /\ Logged("switch_to", i, target, "raised")
              /\ pc' = "except_record"
              /\ UNCHANGED << focus, pdf_url >>
    /\ UNCHANGED SearchState
    /\ UNCHANGED << i, attempted, windows, response, dirExists, files >>

\* Variant of StatusAccepted: any 2xx status, as response.ok would accept.
StatusAcceptedAnySuccess(status) == status \in 200..299

\* response.status_code == 200
StatusAccepted(status) == status = 200

\* response = requests.get(pdf_url); if response.status_code == 200:
HttpGet ==
    /\ pc = "http"
    /\ \/ /\ \E s \in Statuses :
                /\ response' = [status_code |-> s, content |-> Body(pdf_url)]
                /\ Logged("requests.get", i, s, "ok")
                /\ pc' = IF StatusAccepted(s) THEN "write" ELSE "close"
          /\ UNCHANGED exc
       \/ /\ exc' = "RequestException"
          /\ Logged("requests.get", i, 0, "raised")
          /\ pc' = "except_record"
          /\ UNCHANGED response
    /\ UNCHANGED SearchState
    /\ UNCHANGED << i, attempted, handles, focus, windows, pdf_url, dirExists, files >>

Store(fs, path, content) ==
    [p \in DOMAIN fs \cup {path} |-> IF p = path THEN content ELSE fs[p]]

\* filename = os.path.join(output_dir, f"{name...}_{position...}.pdf")
RecordPath(r) == PathJoin(OutputDir, Filename(r.name, r.position))

\* with open(filename, 'wb') as f: f.write(response.content)
\* open raises and leaves the file system as it was, or open truncates
\* the file and the write raises (the file is left without the body, <<>>),
\* or the body is written.
WriteFile ==
    /\ pc = "write"
    /\ LET path == RecordPath(results[i])
       IN  \/ /\ files' = Store(files, path, response.content)
              /\ Logged("write", i, 0, "ok")
              /\ pc' = "close"
              /\ UNCHANGED exc
           \/ /\ exc' = "OSError"
              /\ Logged("write", i, 0, "open raised")
              /\ pc' = "except_record"
              /\ UNCHANGED files
           \/ /\ files' = Store(files, path, <<>>)
              /\ exc' = "OSError"
              /\ Logged("write", i, 0, "write raised")
              /\ pc' = "except_record"
    /\ UNCHANGED SearchState
    /\ UNCHANGED << i, attempted, handles, focus, windows, pdf_url, response, dirExists >>

\* driver.close(): closes the focused window
CloseWindow ==
    /\ pc = "close"
    /\ handles' = Without(handles, focus)
    /\ Logged("close", i, focus, "ok")
    /\ pc' = "switch_back"
    /\ UNCHANGED SearchState
    /\ UNCHANGED << exc, i, attempted, focus, windows, pdf_url, response, dirExists, files >>

\* driver.switch_to.window(windows[0]), the last statement of the try block
SwitchBack ==
    /\ pc = "switch_back"
    /\ IF windows[1] \in Range(handles)
       THEN /\ focus' = windows[1]
            /\ Logged("switch_back", i, windows[1], "ok")
            /\ pc' = "loop"
            /\ i' = i + 1
            /\ UNCHANGED exc
       ELSE /\ exc' = "NoSuchWindowException"
            /\ Logged("switch_back", i, windows[1], "raised")
            /\ pc' = "except_record"
            /\ UNCHANGED << focus, i >>
    /\ UNCHANGED SearchState
    /\ UNCHANGED << attempted, handles, windows, pdf_url, response, dirExists, files >>

\* Variant of ExceptRecord: the handler lets the exception propagate.
ExceptRecordReraise ==
    /\ pc = "except_record"
    /\ pc' = "finally"
    /\ UNCHANGED SearchState
    /\ UNCHANGED << exc, i, attempted, handles, focus, windows, pdf_url, response,
                    dirExists, files, log >>

\* except Exception as e: print(...)  -- and the loop goes on
ExceptRecord ==
    /\ pc = "except_record"
    /\ exc' = "none"
    /\ i' = i + 1
    /\ pc' = "loop"
    /\ UNCHANGED SearchState
    /\ UNCHANGED << attempted, handles, focus, windows, pdf_url, response,
                    dirExists, files, log >>

(***************************************************************************)
(* The run                                                                 *)
(***************************************************************************)
Next ==
    \/ Navigate \/ WaitForPage \/ ExceptWait
    \/ FillFirstName \/ FillLastName \/ Submit \/ ExceptForm
    \/ CheckTable \/ ParseResults
    \/ MainIf \/ MakeDir \/ LoopHead
    \/ ExecuteScript \/ ReadHandles \/ SwitchWindow \/ HttpGet \/ WriteFile
    \/ CloseWindow \/ SwitchBack \/ ExceptRecord
    \/ Finally

Spec == Init /\ [][Next]_vars

(***************************************************************************)
(* Vocabulary of the properties                                            *)
(***************************************************************************)
Events == DOMAIN log
Happened(op, rec, res) ==
    \E k \in Events : log[k].op = op /\ log[k].rec = rec /\ log[k].res = res
Count(op) == Cardinality({ k \in Events : log[k].op = op })

SearchExceptions ==
    { "WebDriverException", "TimeoutException", "NoSuchElementException",
      "ElementNotInteractableException" }
DownloadPcs ==
    { "mkdir", "loop", "exec", "handles", "switch", "http", "write", "close",
      "switch_back", "except_record" }
DownloadOps ==
    { "makedirs", "execute_script", "window_handles", "switch_to", "requests.get",
      "write", "close", "switch_back" }
Ended == pc \in {"finally", "done"}
NoDownloadStep ==
    /\ pc \notin DownloadPcs
    /\ \A k \in Events : log[k].op \notin DownloadOps
    /\ files = [p \in {} |-> 0]
    /\ attempted = <<>>

\* The records whose processing is over.
Finished == IF pc \in DownloadPcs THEN 1..(i - 1) ELSE 1..i

(***************************************************************************)
(* C1: once download_sei_pdfs has entered its loop, every failure of a     *)
(* record is caught inside the loop: the records are started on exactly    *)
(* once each and in list order, and the function returns normally (no      *)
(* exception in flight) after the last one.                                *)
(***************************************************************************)
C1_EveryRecordAttempted ==
    /\ pc \in DownloadPcs \ {"mkdir"} =>
          attempted = [k \in 1..(IF pc = "loop" THEN i - 1 ELSE i) |-> k]
    /\ (Ended /\ i >= 1) =>
          /\ exc = "none"
          /\ attempted = [k \in 1..Len(results) |-> k]

C1_Witness ==
    /\ pc = "done"
    /\ Len(results) = 2
    /\ Happened("requests.get", 1, "raised")
    /\ Happened("execute_script", 2, "raised")
    /\ attempted = <<1, 2>>

(***************************************************************************)
(* C2: at the start of every loop iteration the focused window is the      *)
(* primary window and no secondary window is open, whatever happened to    *)
(* the earlier records (success, non-success status, or an exception from  *)
(* the HTTP GET or the file write).                                        *)
(***************************************************************************)
C2_SecondaryClosedBeforeNextRecord ==
    pc = "loop" => (focus = Primary /\ handles = <<Primary>>)

(***************************************************************************)
(* C3: every run that ends has called driver.quit exactly once, as the     *)
(* last operation of the run, and a run that has not ended has not called  *)
(* it.                                                                     *)
(***************************************************************************)
C3_QuitOnceLast ==
    /\ pc # "done" => Count("quit") = 0
    /\ pc = "done" =>
          /\ Count("quit") = 1
          /\ log[Len(log)].op = "quit"

C3_Witness ==
    /\ pc = "done"
    /\ exc = "OSError"
    /\ log[Len(log)].op = "quit"
    /\ results # <<>>

(***************************************************************************)
(* C4 as stated: search_sei has exactly two fatal failure paths and both   *)
(* save a diagnostic screenshot before the failure propagates.             *)
(***************************************************************************)
C4_EveryFatalPathTakesScreenshot ==
    (Ended /\ exc \in SearchExceptions) => screenshots # {}

(***************************************************************************)
(* C4 as amended: a timeout of the wait saves debug_screenshot.png and     *)
(* nothing is typed or clicked; a failed lookup of or interaction with a   *)
(* form element saves form_error_screenshot.png; a failed navigation       *)
(* propagates without a screenshot.  In each case no step is retried,      *)
(* search_sei returns no list and main runs no download step.              *)
(***************************************************************************)
C4_FatalSearchFailures ==
    /\ (Ended /\ exc = "TimeoutException") =>
          /\ screenshots = {"debug_screenshot.png"}
          /\ \A e \in DOMAIN typed : typed[e].by = "none"
          /\ clicked = "none"
          /\ Count("send_keys") = 0 /\ Count("click") = 0
    /\ (Ended /\ exc \in {"NoSuchElementException", "ElementNotInteractableException"}) =>
          /\ screenshots = {"form_error_screenshot.png"}
          /\ clicked = "none"
    /\ (Ended /\ exc = "WebDriverException") => screenshots = {}
    /\ exc \in SearchExceptions =>
          /\ results = <<>>
          /\ NoDownloadStep
          /\ Count("get") = 1 /\ Count("wait") <= 1 /\ Count("click") <= 1
          /\ Count("save_screenshot") <= 1

C4_Witness ==
    /\ pc = "done"
    /\ exc = "NoSuchElementException"
    /\ typed["FirstName"].by = "id"
    /\ screenshots = {"form_error_screenshot.png"}

(***************************************************************************)
(* C5: a form element whose primary id is absent is found by the fallback  *)
(* locator when that one matches: the lookup of an element fails only when *)
(* the fallback locator matches nothing either.                            *)
(***************************************************************************)
C5_FailedElement ==
    IF typed["FirstName"].by = "none" THEN "FirstName"
    ELSE IF typed["LastName"].by = "none" THEN "LastName"
    ELSE "SearchSEI"

C5_FallbackLocatorUsed ==
    (pc = "except_form" /\ exc = "NoSuchElementException") =>
        ~page.byCss[C5_FailedElement]

(***************************************************************************)
(* C6: when the page after the submit has no results table, or a table     *)
(* with no row after the header, search_sei returns the empty list without *)
(* raising and main runs no download step: no directory or file is         *)
(* created, no script is run, no window is switched or closed and no GET   *)
(* is issued.                                                              *)
(***************************************************************************)
C6_NoTableOrNoRows ==
    page.kind = "results" /\ (~page.hasTable \/ Len(page.rows) <= 1)

C6_EmptyResultsSkipDownload ==
    C6_NoTableOrNoRows =>
        /\ results = <<>>
        /\ exc = "none"
        /\ NoDownloadStep
        /\ pc # "done" => (handles = <<Primary>> /\ focus = Primary)
        /\ pc \in {"check_table", "parse", "main_if", "finally", "done"}

C6_Witness ==
    /\ pc = "done"
    /\ page.kind = "results"
    /\ page.hasTable
    /\ Len(page.rows) = 1
    /\ ~dirExists

(***************************************************************************)
(* C7: for a table of a header row and N data rows, the list search_sei    *)
(* returns is the in-order subsequence of the data rows with at least two  *)
(* cells whose first cell's (first) anchor has an href: at most N records, *)
(* none for the header, name and position the trimmed texts of the second  *)
(* and third cell, and the empty position for a row of exactly two cells.  *)
(***************************************************************************)
C7_Qualifies(row) ==
    /\ Len(row) >= 2
    /\ row[1].anchors # <<>>
    /\ row[1].anchors[1].hasHref

C7_Returned ==
    /\ page.kind = "results"
    /\ page.hasTable
    /\ page.rows # <<>>
    /\ pc \notin {"check_table", "parse"}

C7_HarvestIsQualifyingRows ==
    C7_Returned =>
        LET data == [k \in 1..(Len(page.rows) - 1) |-> page.rows[k + 1]]
            sel == SelectSeq(data, C7_Qualifies)
        IN  /\ Len(results) = Len(sel)
            /\ Len(results) <= Len(data)
            /\ \A k \in 1..Len(sel) :
                  /\ results[k].link = sel[k][1].anchors[1].href
                  /\ results[k].name = Strip(sel[k][2].text)
                  /\ Len(sel[k]) = 2 => results[k].position = <<>>
                  /\ Len(sel[k]) > 2 => results[k].position = Strip(sel[k][3].text)

C7_Witness ==
    /\ pc = "main_if"
    /\ page.kind = "results"
    /\ page.hasTable
    /\ page.rows = << RowFull, RowAnchorNoHref, RowTwoCells >>
    /\ Len(results) = 1
    /\ results[1].name = T_John_Smith
    /\ results[1].position = <<>>

(***************************************************************************)
(* Vocabulary of the download properties                                   *)
(***************************************************************************)
\* The status record r's GET was answered with, if it was answered.
GotStatus(r, statuses) ==
    \E k \in Events :
        /\ log[k].op = "requests.get" /\ log[k].rec = r /\ log[k].res = "ok"
        /\ log[k].n \in statuses
WriteAttempted(r) == \E k \in Events : log[k].op = "write" /\ log[k].rec = r
Written(r) == Happened("write", r, "ok")

\* The window record r switched to at line 136.
FetchedWindow(r) ==
    LET k == CHOOSE k \in Events :
                 log[k].op = "switch_to" /\ log[k].rec = r /\ log[k].res = "ok"
    IN  log[k].n

\* A text with every space turned into an underscore, built left to right.
RECURSIVE Underscored(_)
Underscored(s) ==
    IF s = <<>> THEN <<>>
    ELSE <<IF Head(s) = " " THEN "_" ELSE Head(s)>> \o Underscored(Tail(s))

ExpectedPath(r) ==
    OutputDir \o <<"/">> \o Underscored(results[r].name) \o <<"_">>
        \o Underscored(results[r].position) \o <<".","p","d","f">>

\* The writes that opened the file of path p, in order.
Openings(p) ==
    { k \in Events :
        /\ log[k].op = "write"
        /\ log[k].res \in {"ok", "write raised"}
        /\ ExpectedPath(log[k].rec) = p }
LastOpening(p) == CHOOSE k \in Openings(p) : \A j \in Openings(p) : j <= k

(***************************************************************************)
(* C8 as stated: a file is written for a record exactly when the GET of    *)
(* its PDF URL was answered with a status that indicates success (2xx).    *)
(***************************************************************************)
C8_WrittenIffSuccessStatus ==
    \A r \in Finished : Written(r) <=> GotStatus(r, 200..299)

(***************************************************************************)
(* C8 as amended: a write is attempted for a record exactly when its GET   *)
(* was answered with status 200, and a file is written exactly when that   *)
(* write does not raise.  The path is the output directory joined with     *)
(* name and position, spaces turned into underscores, joined by "_" and    *)
(* suffixed ".pdf"; the content is the response body.  Each path holds     *)
(* what the last write that opened it left: the body that record fetched   *)
(* if the write completed (a later record of the same derived name         *)
(* overwrites an earlier one), a truncated file if it raised.              *)
(***************************************************************************)
C8_FileWrittenOnStatus200 ==
    /\ \A r \in Finished :
          /\ WriteAttempted(r) <=> GotStatus(r, {200})
          /\ Written(r) <=> (GotStatus(r, {200}) /\ ~Happened("write", r, "open raised")
                                /\ ~Happened("write", r, "write raised"))
    /\ DOMAIN files = { p \in { ExpectedPath(r) : r \in 1..Len(results) } : Openings(p) # {} }
    /\ \A p \in DOMAIN files :
          LET last == log[LastOpening(p)]
          IN  files[p] = IF last.res = "ok" THEN Body(FetchedWindow(last.rec)) ELSE <<>>
    /\ Filename(T_John_Smith, T_Governor) =
          <<"J","o","h","n","_","S","m","i","t","h","_","G","o","v","e","r","n","o","r",
            ".","p","d","f">>

C8_Witness ==
    /\ pc = "done"
    /\ Len(results) = 2
    /\ results[1].name # results[2].name
    /\ ExpectedPath(1) = ExpectedPath(2)
    /\ Written(1) /\ Written(2)
    /\ files[ExpectedPath(1)] = Body(2)

(***************************************************************************)
(* C9: whenever the loop has switched to the second window handle for      *)
(* record i, the focused window is the one record i's own trigger script   *)
(* opened, so the document fetched for record i is record i's.             *)
(***************************************************************************)
C9_SecondHandleIsOwnWindow ==
    pc = "http" => (focus = i /\ pdf_url = i)

(***************************************************************************)
(* C10: the download loop never closes the primary window.  The primary    *)
(* window stays open, as the first handle, until quit; every close is of   *)
(* the second handle of a list of more than one handle, after the loop     *)
(* switched to it for that record; a record that found a single handle     *)
(* causes no switch, no close, no GET and no file write.                   *)
(***************************************************************************)
C10_PrimaryNeverClosed ==
    /\ pc # "done" => (handles # <<>> /\ handles[1] = Primary)
    /\ \A k \in Events :
          log[k].op = "close" =>
             /\ log[k].n # Primary
             /\ \E j \in 1..(k - 1) :
                   /\ log[j] = Ev("switch_to", log[k].rec, log[k].n, "ok")
                   /\ \E h \in 1..(j - 1) :
                         /\ log[h].op = "window_handles"
                         /\ log[h].rec = log[k].rec
                         /\ log[h].n > 1
    /\ \A k \in Events :
          (log[k].op = "window_handles" /\ log[k].n = 1) =>
             \A j \in Events :
                log[j].rec = log[k].rec =>
                   log[j].op \notin {"switch_to", "requests.get", "write", "close",
                                     "switch_back"}

C10_Witness ==
    /\ pc = "done"
    /\ Len(results) = 2
    /\ Happened("write", 1, "write raised")
    /\ Happened("execute_script", 2, "opened")
    /\ Happened("close", 2, "ok")
    /\ focus = Primary

====
